---------------------------- MODULE Spec2Model ----------------------------
(***************************************************************************)
(* A model of the GuppShupp AI companion demo: the bounded conversation    *)
(* memory (src/memory/conversation.py), the personality engine             *)
(* (src/personality/engine.py), the Ollama client with its mock fallback   *)
(* (src/llm/client.py) and the Streamlit script that composes them         *)
(* (src/app.py).                                                           *)
(*                                                                         *)
(* Python str values are TLA+ strings; TLC evaluates Len, \o and SubSeq on *)
(* them, so the string methods the code calls (lower, capitalize, strip,   *)
(* in, join) are computed character by character.  A character outside    *)
(* ASCII is written <u+XXXX> (its code point, lower-case hex), which none  *)
(* of those methods changes.  Python's None is the record None below, and  *)
(* a method is an operator from (self, arguments) to its return value or   *)
(* to the object after the call.                                           *)
(***************************************************************************)
EXTENDS Integers, Sequences, FiniteSets, TLC

VARIABLES
    memory,       \* the ConversationMemory: [max_history, history]
    clock,        \* datetime.now(), as the number of timestamps taken so far
    added,        \* every message passed to add_message since the buffer was last empty by construction or clear()
    personality,  \* the PersonalityEngine: [tone, traits]
    llm_client,   \* the OllamaClient: [base_url, model]
    built,        \* how llm_client was constructed: entry point, arguments, os.environ then
    env,          \* os.environ: a function from the variables that are set to their values
    backend,      \* what the Ollama server does with a request right now
    messages,     \* st.session_state.messages
    pc,           \* where the current run of main() stands
    turn,         \* the locals of the current user turn
    trace,        \* the calls the current user turn has made, in order; for a client used
                  \* on its own, the caller's previous call to it and its outcome
    ret           \* the last operation: its name, arguments and return value

vars == <<memory, clock, added, personality, llm_client, built, env, backend,
          messages, pc, turn, trace, ret>>

-----------------------------------------------------------------------------
(* Python values and str methods *)

None == [none |-> TRUE]

Min(a, b) == IF a < b THEN a ELSE b

Max(a, b) == IF a > b THEN a ELSE b

UpperLetters == "ABCDEFGHIJKLMNOPQRSTUVWXYZ"

LowerLetters == "abcdefghijklmnopqrstuvwxyz"

\* the ASCII characters str.strip() removes that a TLA+ string can hold
Whitespace == {" ", "\n", "\t", "\r", "\f"}

CharAt(s, i) == SubSeq(s, i, i)

\* each upper-case letter's lower-case letter, and the converse
LowerOf ==
    [c \in {CharAt(UpperLetters, i) : i \in 1..26} |->
        CharAt(LowerLetters, CHOOSE i \in 1..26 : CharAt(UpperLetters, i) = c)]

UpperOf ==
    [c \in {CharAt(LowerLetters, i) : i \in 1..26} |->
        CharAt(UpperLetters, CHOOSE i \in 1..26 : CharAt(LowerLetters, i) = c)]

\* str.lower() of one character
LowerChar(c) == IF c \in DOMAIN LowerOf THEN LowerOf[c] ELSE c

\* str.upper() of one character
UpperChar(c) == IF c \in DOMAIN UpperOf THEN UpperOf[c] ELSE c

RECURSIVE LowerFrom(_, _)
\* s[i-1:].lower(), for i from 1
LowerFrom(s, i) ==
    IF i > Len(s) THEN "" ELSE LowerChar(CharAt(s, i)) \o LowerFrom(s, i + 1)

\* str.lower()
Lower(s) == LowerFrom(s, 1)

\* str.capitalize(): the first character upper-cased, the rest lower-cased
Capitalize(s) ==
    IF s = "" THEN "" ELSE UpperChar(CharAt(s, 1)) \o LowerFrom(s, 2)

RECURSIVE LStrip(_)
LStrip(s) ==
    IF s # "" /\ CharAt(s, 1) \in Whitespace THEN LStrip(SubSeq(s, 2, Len(s))) ELSE s

RECURSIVE RStrip(_)
RStrip(s) ==
    IF s # "" /\ CharAt(s, Len(s)) \in Whitespace THEN RStrip(SubSeq(s, 1, Len(s) - 1)) ELSE s

\* str.strip()
Strip(s) == RStrip(LStrip(s))

\* needle in hay
Contains(hay, needle) ==
    \E i \in 0..(Len(hay) - Len(needle)) : SubSeq(hay, i + 1, i + Len(needle)) = needle

\* hay.endswith(tail)
EndsWith(hay, tail) ==
    Len(hay) >= Len(tail) /\ SubSeq(hay, Len(hay) - Len(tail) + 1, Len(hay)) = tail

RECURSIVE Join(_, _)
\* sep.join(parts)
Join(sep, parts) ==
    IF parts = <<>> THEN ""
    ELSE IF Len(parts) = 1 THEN parts[1]
    ELSE parts[1] \o sep \o Join(sep, Tail(parts))

\* seq[start:] for a Python list: a negative start counts from the end, and
\* -0 is 0
SliceFrom(seq, start) ==
    LET n == Len(seq)
        first == IF start < 0 THEN Max(n + start, 0) ELSE Min(start, n)
    IN  SubSeq(seq, first + 1, n)

\* an Optional[str] that is not None
Some(v) == [val |-> v]

\* bool(x) of an Optional[str]: None and "" are false
Truthy(x) == x # None /\ x.val # ""

-----------------------------------------------------------------------------
(* src/memory/conversation.py *)

\* ConversationMemory.__init__
ConversationMemory(max_history) == [max_history |-> max_history, history |-> <<>>]

\* create_memory
create_memory(max_history) == ConversationMemory(max_history)

\* add_message with the slice taken from the wrong end: history[:max_history]
add_message_keeps_oldest(self, role, content, now) ==
    LET message == [role |-> role, content |-> content, timestamp |-> now]
        appended == Append(self.history, message)
    IN  IF Len(appended) > self.max_history
        THEN [self EXCEPT !.history = SubSeq(appended, 1, self.max_history)]
        ELSE [self EXCEPT !.history = appended]

\* ConversationMemory.add_message: the buffer after the call made at time now
add_message(self, role, content, now) ==
    LET message == [role |-> role, content |-> content, timestamp |-> now]
        appended == Append(self.history, message)
    IN  IF Len(appended) > self.max_history
        THEN [self EXCEPT !.history = SliceFrom(appended, -self.max_history)]
        ELSE [self EXCEPT !.history = appended]

\* get_context with the role left as stored: no .capitalize()
get_context_role_as_stored(self, num_messages) ==
    LET recent == IF self.history # <<>> THEN SliceFrom(self.history, -num_messages) ELSE <<>>
        context_parts ==
            [i \in 1..Len(recent) |-> recent[i].role \o ": " \o recent[i].content]
    IN  Join("\n", context_parts)

\* ConversationMemory.get_context: the string returned
get_context(self, num_messages) ==
    LET recent == IF self.history # <<>> THEN SliceFrom(self.history, -num_messages) ELSE <<>>
        context_parts ==
            [i \in 1..Len(recent) |->
                Capitalize(recent[i].role) \o ": " \o recent[i].content]
    IN  Join("\n", context_parts)

\* ConversationMemory.clear
clear(self) == [self EXCEPT !.history = <<>>]

-----------------------------------------------------------------------------
(* Exceptions: a call either returns a value or raises *)

Return(v) == [raised |-> FALSE, value |-> v]

Raise(e) == [raised |-> TRUE, exc |-> e]

\* the classes an exception of each class is an instance of
ExceptionBases ==
    [ValueError      |-> {"ValueError", "Exception"},
     JSONDecodeError |-> {"JSONDecodeError", "ValueError", "Exception"},
     AttributeError  |-> {"AttributeError", "Exception"},
     ConnectionError |-> {"ConnectionError", "RequestException", "Exception"},
     Timeout         |-> {"Timeout", "RequestException", "Exception"}]

\* isinstance(exc, cls), as an except clause tests it
IsInstance(exc, cls) == cls \in ExceptionBases[exc]

-----------------------------------------------------------------------------
(* src/personality/engine.py *)

\* the values of the enum PersonalityTone; a tone is written as its value
PersonalityToneValues == {"friendly", "professional", "casual", "empathetic", "enthusiastic"}

\* PersonalityTone(value): the enum's lookup by value
PersonalityTone(value) ==
    IF value \in PersonalityToneValues THEN Return(value) ELSE Raise("ValueError")

trait_map ==
    [friendly     |-> [style |-> "warm and approachable", greeting |-> "Hey there!",
                       prefix |-> "I'd be happy to help! ", suffix |-> " <u+1f60a>"],
     professional |-> [style |-> "formal and precise", greeting |-> "Hello,",
                       prefix |-> "Certainly. ", suffix |-> ""],
     casual       |-> [style |-> "relaxed and informal", greeting |-> "Hey!",
                       prefix |-> "Sure thing! ", suffix |-> " <u+1f44d>"],
     empathetic   |-> [style |-> "understanding and supportive", greeting |-> "Hello friend,",
                       prefix |-> "I understand. ", suffix |-> " <u+1f499>"],
     enthusiastic |-> [style |-> "energetic and excited", greeting |-> "Hi there!",
                       prefix |-> "Awesome question! ", suffix |-> " <u+2728>"]]

\* PersonalityEngine._get_traits, for an engine whose tone is tone
get_traits(tone) ==
    IF tone \in DOMAIN trait_map THEN trait_map[tone] ELSE trait_map["friendly"]

\* PersonalityEngine.__init__
PersonalityEngine(tone) == [tone |-> tone, traits |-> get_traits(tone)]

\* apply_tone without the test for an empty response
apply_tone_decorates_blank(self, response, is_greeting) ==
    IF is_greeting THEN self.traits.greeting \o " " \o response
    ELSE self.traits.prefix \o response \o self.traits.suffix

\* PersonalityEngine.apply_tone: the string returned; self is not assigned to
apply_tone(self, response, is_greeting) ==
    IF is_greeting THEN self.traits.greeting \o " " \o response
    ELSE IF Strip(response) = "" THEN response
    ELSE self.traits.prefix \o response \o self.traits.suffix

\* PersonalityEngine.get_system_prompt
get_system_prompt(self) ==
    "You are a " \o self.traits.style \o " AI companion. Respond in a "
        \o self.tone \o " manner."

\* set_tone without the second assignment: traits are not resolved again
set_tone_keeps_traits(self, tone) == [self EXCEPT !.tone = tone]

\* PersonalityEngine.set_tone: the engine after the call
set_tone(self, tone) ==
    LET retoned == [self EXCEPT !.tone = tone]
    IN  [retoned EXCEPT !.traits = get_traits(retoned.tone)]

\* create_personality: only ValueError is caught
create_personality(tone) ==
    LET tone_enum == PersonalityTone(Lower(tone))
    IN  IF tone_enum.raised
        THEN IF IsInstance(tone_enum.exc, "ValueError")
             THEN Return(PersonalityEngine("friendly"))
             ELSE tone_enum
        ELSE Return(PersonalityEngine(tone_enum.value))

-----------------------------------------------------------------------------
(* src/llm/client.py *)

\* os.getenv(key, default) on the environment environ; default is an Optional[str]
getenv(environ, key, default) ==
    IF key \in DOMAIN environ THEN Some(environ[key]) ELSE default

\* a or b for Optional[str] operands
Or(a, b) == IF Truthy(a) THEN a ELSE b

\* __init__ with the model argument used as given: os.getenv is not consulted
OllamaClient_model_as_given(base_url, model, environ) ==
    [base_url |-> Or(base_url, getenv(environ, "OLLAMA_BASE_URL", Some("http://localhost:11434"))).val,
     model    |-> model]

\* OllamaClient.__init__(base_url, model) under the environment environ
OllamaClient(base_url, model, environ) ==
    [base_url |-> Or(base_url, getenv(environ, "OLLAMA_BASE_URL", Some("http://localhost:11434"))).val,
     model    |-> getenv(environ, "OLLAMA_MODEL", Some(model)).val]

\* get_llm_client(model) under the environment environ
get_llm_client(model, environ) ==
    LET env_model == getenv(environ, "OLLAMA_MODEL", None)
    IN  OllamaClient(None, Or(env_model, Some(model)).val, environ)

FallbackMarker == "(Mock response <u+2014> generated without a live LLM.)"

bases ==
    [friendly     |-> "Sure! <u+1f60a> Here<u+2019>s a simple suggestion to help you move forward.",
     professional |-> "Here is a concise and structured response to your request.",
     empathetic   |-> "I understand what you<u+2019>re asking. Let<u+2019>s take this step by step.",
     casual       |-> "No worries <u+2014> here<u+2019>s a quick tip to keep things rolling.",
     enthusiastic |-> "Awesome! Let<u+2019>s dive in with a quick, helpful pointer."]

\* OllamaClient.mock_response(prompt, context); nothing in its try block can
\* raise for an Optional[str] context
mock_response(self, prompt, context) ==
    LET ctx == Lower(Or(context, Some("")).val)
        personality_ ==
            IF Contains(ctx, "professional") THEN "professional"
            ELSE IF Contains(ctx, "empathetic") THEN "empathetic"
            ELSE IF Contains(ctx, "casual") THEN "casual"
            ELSE IF Contains(ctx, "enthusiastic") THEN "enthusiastic"
            ELSE "friendly"
        prefix == IF personality_ \in DOMAIN bases THEN bases[personality_] ELSE bases["friendly"]
    IN  prefix \o " " \o FallbackMarker

\* what the server's reply to a request is for the requests library: a
\* connection failure and a timeout raise, anything else is a Response
requests_call(reply) ==
    IF reply.kind = "response" THEN Return(reply) ELSE Raise(reply.kind)

\* Response.json(): the body parsed, or JSONDecodeError
response_json(response) ==
    IF response.body.json THEN Return(response.body) ELSE Raise("JSONDecodeError")

\* value.get(key, default) on a parsed body: only a JSON object has .get
json_get(value, key, default) ==
    IF value.type # "object" THEN Raise("AttributeError")
    ELSE IF key \in DOMAIN value.fields THEN Return(value.fields[key])
    ELSE Return(default)

\* the JSON payload and URL of generate's request
generate_request(self, prompt, context) ==
    LET full_prompt == IF Truthy(context) THEN context.val \o "\n\n" \o prompt ELSE prompt
    IN  [method |-> "POST", url |-> self.base_url \o "/api/generate",
         json |-> [model |-> self.model, prompt |-> full_prompt, stream |-> FALSE],
         timeout |-> 30]

\* the try block of OllamaClient.generate, given the server's reply
generate_try(self, prompt, context, reply) ==
    LET response == requests_call(reply)
    IN  IF response.raised THEN response
        ELSE IF response.value.status_code = 200
        THEN LET parsed == response_json(response.value)
             IN  IF parsed.raised THEN parsed
                 ELSE json_get(parsed.value, "response", "")
        ELSE Return(mock_response(self, prompt, None))

\* generate without its second except clause
generate_catches_connection_only(self, prompt, context, reply) ==
    LET r == generate_try(self, prompt, context, reply)
    IN  IF r.raised /\ IsInstance(r.exc, "ConnectionError")
        THEN Return(mock_response(self, prompt, None))
        ELSE r

\* OllamaClient.generate(prompt, context), given the server's reply: the try
\* block and its two except clauses, each calling mock_response(prompt)
generate(self, prompt, context, reply) ==
    LET r == generate_try(self, prompt, context, reply)
    IN  IF r.raised /\ IsInstance(r.exc, "ConnectionError")
        THEN Return(mock_response(self, prompt, None))
        ELSE IF r.raised /\ IsInstance(r.exc, "Exception")
        THEN Return(mock_response(self, prompt, None))
        ELSE r

\* the request of is_available
is_available_request(self) ==
    [method |-> "GET", url |-> self.base_url \o "/api/tags", timeout |-> 5]

\* is_available answering for any response, whatever its status
is_available_any_status(self, reply) ==
    LET response == requests_call(reply)
    IN  IF response.raised
        THEN IF IsInstance(response.exc, "Exception") THEN Return(FALSE) ELSE response
        ELSE Return(TRUE)

\* OllamaClient.is_available(), given the server's reply
is_available(self, reply) ==
    LET response == requests_call(reply)
    IN  IF response.raised
        THEN IF IsInstance(response.exc, "Exception") THEN Return(FALSE) ELSE response
        ELSE Return(response.value.status_code = 200)

-----------------------------------------------------------------------------
(* Bounds and inputs *)

\* the largest max_history a buffer is constructed with
MaxHistory == 3

\* the number of add_message calls explored
MaxClock == 5

\* the largest num_messages passed to get_context
MaxNum == 3

\* the roles add_message is called with; role is not validated
Roles == {"user", "assistant", "sYSTEM"}

\* add_message stores content as it is given: the content of the call made at
\* time t is the t-th letter, so that every message of a run is told apart
Letters == "ABCDEFGHIJ"

ContentAt(t) == CharAt(Letters, t + 1)

-----------------------------------------------------------------------------
(* The state after construction of each component *)

InitMemory(max_history) ==
    /\ memory = create_memory(max_history)
    /\ clock = 0
    /\ added = <<>>

InitPersonality(tone) == personality = create_personality(tone).value

\* a parameter with a default value: None stands for an argument not passed
Default(arg, default) == IF arg = None THEN default ELSE arg.val

\* the replies a server gives, and the bodies of its responses
ConnectionErrorReply == [kind |-> "ConnectionError"]

TimeoutReply == [kind |-> "Timeout"]

Response(status_code, body) == [kind |-> "response", status_code |-> status_code, body |-> body]

NotJson == [json |-> FALSE]

JsonArray == [json |-> TRUE, type |-> "array"]

JsonObject(fields) == [json |-> TRUE, type |-> "object", fields |-> fields]

\* no server listens at the base URL
Down == [tags |-> ConnectionErrorReply, generate |-> ConnectionErrorReply]

\* a server answers both endpoints with success
Up ==
    [tags |-> Response(200, JsonObject(<<>>)),
     generate |-> Response(200, JsonObject([response |-> "Paris."]))]

TagsReplies == {TimeoutReply, Response(200, JsonObject(<<>>)), Response(503, NotJson)}

\* a response field, when present, is text, as POST /api/generate documents it
GenerateReplies ==
    {TimeoutReply, Response(500, NotJson),
     Response(404, JsonObject([response |-> "model not found"])),
     Response(200, NotJson), Response(200, JsonArray), Response(200, JsonObject(<<>>)),
     Response(200, JsonObject([response |-> "Paris."]))}

\* a refused connection is refused for both endpoints; a listening server
\* answers each endpoint in its own way
BackendStates ==
    {Down} \cup {[tags |-> t, generate |-> g] : t \in TagsReplies, g \in GenerateReplies}

\* the client built by OllamaClient(base_url, model) (by = "OllamaClient") or
\* get_llm_client(model) (by = "get_llm_client")
InitClientBy(by, base_url, model, environ) ==
    /\ env = environ
    /\ llm_client = IF by = "OllamaClient"
                    THEN OllamaClient(base_url, Default(model, "mistral"), environ)
                    ELSE get_llm_client(Default(model, "mistral"), environ)
    /\ built = [by |-> by, base_url |-> base_url, model |-> model, environ |-> environ]
    /\ backend = Down

InitClient(environ) == InitClientBy("get_llm_client", None, None, environ)

InitSession ==
    /\ messages = <<>>
    /\ pc = "idle"
    /\ turn = None
    /\ trace = <<>>

-----------------------------------------------------------------------------
(* The conversation memory on its own *)

MemoryInit ==
    /\ \E max_history \in 0..MaxHistory : InitMemory(max_history)
    /\ InitPersonality("friendly")
    /\ InitClient(<<>>)
    /\ InitSession
    /\ ret = [op |-> "__init__"]

AddMessage(role, content) ==
    /\ clock < Min(MaxClock, Len(Letters))
    /\ memory' = add_message(memory, role, content, clock)
    /\ clock' = clock + 1
    /\ added' = Append(added, [role |-> role, content |-> content])
    /\ ret' = [op |-> "add_message", role |-> role, content |-> content]
    /\ UNCHANGED <<personality, llm_client, built, env, backend, messages, pc, turn, trace>>

GetContext(num_messages) ==
    /\ ret' = [op |-> "get_context", num_messages |-> num_messages,
               value |-> get_context(memory, num_messages)]
    /\ UNCHANGED <<memory, clock, added, personality, llm_client, built, env, backend,
                   messages, pc, turn, trace>>

Clear ==
    /\ memory' = clear(memory)
    /\ added' = <<>>
    /\ ret' = [op |-> "clear"]
    /\ UNCHANGED <<clock, personality, llm_client, built, env, backend,
                   messages, pc, turn, trace>>

MemoryNext ==
    \/ \E role \in Roles : AddMessage(role, ContentAt(clock))
    \/ \E n \in 0..MaxNum : GetContext(n)
    \/ Clear

SpecMemory == MemoryInit /\ [][MemoryNext]_vars

\* the (role, content) pairs of a history
RoleContent(history) ==
    [i \in 1..Len(history) |-> [role |-> history[i].role, content |-> history[i].content]]


\* C1: for every max_history >= 1, after each add_message call the history is
\* no longer than max_history and holds exactly the most recent
\* min(number of calls, max_history) messages, role and content, in the order
\* they were added.
C1_HistoryIsRecentWindow ==
    memory.max_history >= 1 =>
        LET kept == Min(Len(added), memory.max_history)
        IN  /\ Len(memory.history) <= memory.max_history
            /\ RoleContent(memory.history) = SubSeq(added, Len(added) - kept + 1, Len(added))

\* max_history = 3 and five calls with contents A, B, C, D, E have left C, D, E
C1_Witness ==
    /\ ret.op = "add_message"
    /\ memory.max_history = 3
    /\ [i \in 1..Len(added) |-> added[i].content] = <<"A", "B", "C", "D", "E">>
    /\ [i \in 1..Len(memory.history) |-> memory.history[i].content] = <<"C", "D", "E">>

\* a role as the context line shows it
RoleTitle(role) ==
    CASE role = "user" -> "User"
      [] role = "assistant" -> "Assistant"
      [] role = "sYSTEM" -> "System"

RECURSIVE ContextLines(_)
\* the messages one per line, oldest first: "<Capitalized role>: <content>"
ContextLines(msgs) ==
    IF msgs = <<>> THEN ""
    ELSE LET last == msgs[Len(msgs)]
             line == RoleTitle(last.role) \o ": " \o last.content
         IN  IF Len(msgs) = 1 THEN line
             ELSE ContextLines(SubSeq(msgs, 1, Len(msgs) - 1)) \o "\n" \o line

\* C6: for every n >= 1 and every history of k messages, get_context(n)
\* returns the last min(n, k) messages, oldest first, each as
\* "<Capitalized role>: <content>", joined by one newline; all k when k < n,
\* and the empty string on an empty history.
C6_ContextIsLastN ==
    (ret.op = "get_context" /\ ret.num_messages >= 1) =>
        LET k == Len(memory.history)
            taken == Min(ret.num_messages, k)
        IN  /\ ret.value = ContextLines(SubSeq(memory.history, k - taken + 1, k))
            /\ (k = 0 => ret.value = "")

\* get_context(3) on a history of two messages has returned both, oldest first
C6_Witness ==
    /\ ret.op = "get_context"
    /\ ret.num_messages = 3
    /\ Len(memory.history) = 2
    /\ ret.value = "User: A\nSystem: B"

-----------------------------------------------------------------------------
(* The personality engine on its own *)

\* the names create_personality is called with
ToneNames ==
    {"friendly", "professional", "casual", "empathetic", "enthusiastic",
     "Casual", "PROFESSIONAL", "grumpy", "friendly ", ""}

\* the texts apply_tone is called with
Texts ==
    {"", " ", "\n", " \t ", "Try restarting.", "Hi", " ok ", "a\nb", "Paris.",
     "This is a demo response. Connect to Ollama for real AI interactions!"}

StylerInit ==
    /\ \E name \in ToneNames :
        /\ InitPersonality(name)
        /\ ret = [op |-> "create_personality", tone |-> name, result |-> create_personality(name)]
    /\ InitMemory(MaxHistory)
    /\ InitClient(<<>>)
    /\ InitSession

\* create_personality(name), its result stored as the session's engine
CreatePersonality(name) ==
    LET r == create_personality(name)
    IN  /\ personality' = IF r.raised THEN personality ELSE r.value
        /\ ret' = [op |-> "create_personality", tone |-> name, result |-> r]
        /\ UNCHANGED <<memory, clock, added, llm_client, built, env, backend,
                       messages, pc, turn, trace>>

SetTone(tone) ==
    /\ personality' = set_tone(personality, tone)
    /\ ret' = [op |-> "set_tone", tone |-> tone]
    /\ UNCHANGED <<memory, clock, added, llm_client, built, env, backend,
                   messages, pc, turn, trace>>

ApplyTone(response, is_greeting) ==
    /\ ret' = [op |-> "apply_tone", response |-> response, is_greeting |-> is_greeting,
               engine |-> personality,
               value |-> apply_tone(personality, response, is_greeting)]
    /\ UNCHANGED <<memory, clock, added, personality, llm_client, built, env, backend,
                   messages, pc, turn, trace>>

GetSystemPrompt ==
    /\ ret' = [op |-> "get_system_prompt", value |-> get_system_prompt(personality)]
    /\ UNCHANGED <<memory, clock, added, personality, llm_client, built, env, backend,
                   messages, pc, turn, trace>>

StylerNext ==
    \/ \E name \in ToneNames : CreatePersonality(name)
    \/ \E tone \in PersonalityToneValues : SetTone(tone)
    \/ \E response \in Texts, is_greeting \in BOOLEAN : ApplyTone(response, is_greeting)
    \/ GetSystemPrompt

SpecStyler == StylerInit /\ [][StylerNext]_vars

\* every character of text is whitespace (so is the empty text)
AllWhitespace(text) == \A i \in 1..Len(text) : CharAt(text, i) \in Whitespace

\* C7: apply_tone is a function of (tone, text, is_greeting) that leaves the
\* engine's tone and traits as they were: with is_greeting it returns
\* "<greeting of tone> <text>"; without it, an empty or whitespace-only text
\* is returned unchanged, and any other text comes back as
\* "<prefix of tone><text><suffix of tone>".
C7_ApplyTone ==
    ret.op = "apply_tone" =>
        LET traits == trait_map[personality.tone]
        IN  /\ personality = ret.engine
            /\ ret.value =
                  IF ret.is_greeting THEN traits.greeting \o " " \o ret.response
                  ELSE IF AllWhitespace(ret.response) THEN ret.response
                  ELSE traits.prefix \o ret.response \o traits.suffix
            /\ (~ret.is_greeting /\ ret.response = "" => ret.value = "")

\* tone casual: apply_tone("Try restarting.") has returned the decorated text,
\* and apply_tone of a whitespace-only text is reachable too
C7_Witness ==
    /\ ret.op = "apply_tone"
    /\ personality.tone = "casual"
    /\ ~ret.is_greeting
    /\ ret.response = "Try restarting."
    /\ ret.value = "Sure thing! Try restarting. <u+1f44d>"

\* the tone a name stands for when compared case-insensitively, or "" for none
NamedTone(name) ==
    CASE name \in {"friendly"} -> "friendly"
      [] name \in {"professional", "PROFESSIONAL"} -> "professional"
      [] name \in {"casual", "Casual"} -> "casual"
      [] name \in {"empathetic"} -> "empathetic"
      [] name \in {"enthusiastic"} -> "enthusiastic"
      [] OTHER -> ""

\* C8: creating an engine from a name that is none of the five tones
\* (compared case-insensitively) does not raise and gives the engine that
\* "friendly" gives; a recognized name gives that tone with its own trait
\* record; and the trait record is always the one of the current tone, also
\* after set_tone.
C8_ToneFallback ==
    /\ personality.traits = trait_map[personality.tone]
    /\ ret.op = "create_personality" =>
        /\ ~ret.result.raised
        /\ personality = ret.result.value
        /\ NamedTone(ret.tone) = "" => personality = create_personality("friendly").value
        /\ NamedTone(ret.tone) # "" => personality.tone = NamedTone(ret.tone)
    /\ ret.op = "set_tone" => personality.tone = ret.tone

\* an engine created from an unrecognized name has the friendly greeting
C8_Witness ==
    /\ ret.op = "create_personality"
    /\ ret.tone = "grumpy"
    /\ personality.tone = "friendly"
    /\ personality.traits.greeting = "Hey there!"

-----------------------------------------------------------------------------
(* The model client on its own *)

Prompts == {"hi", "Write a professional email"}

\* the contexts generate and mock_response are called with: none, empty, the
\* professional engine's system prompt, and texts naming several tones or none
Contexts ==
    {None, Some(""), Some(get_system_prompt(PersonalityEngine("professional"))),
     Some("Be enthusiastic, CASUAL, Empathetic and professional."),
     Some("Be enthusiastic, CASUAL and Empathetic."),
     Some("Be enthusiastic and CASUAL."),
     Some("Be Enthusiastic."),
     Some("Be kind.")}

ClientInit ==
    /\ InitClient(<<>>)
    /\ InitMemory(MaxHistory)
    /\ InitPersonality("friendly")
    /\ messages = <<>>
    /\ pc = "idle"
    /\ turn = None
    /\ trace = <<>>
    /\ ret = [op |-> "__init__"]

\* the server starts, stops or changes what it answers
BackendChange(state) ==
    /\ state # backend
    /\ backend' = state
    /\ ret' = [op |-> "backend"]
    /\ UNCHANGED <<memory, clock, added, personality, llm_client, built, env,
                   messages, pc, turn, trace>>

\* what the caller remembers of a call to the client: the previous call's
\* operation and outcome
Remembered ==
    IF ret.op = "is_available" THEN <<[op |-> ret.op, value |-> ret.result.value]>>
    ELSE IF ret.op = "generate"
    THEN <<[op |-> ret.op, mock |-> EndsWith(ret.result.value, FallbackMarker)]>>
    ELSE trace

Generate(prompt, context) ==
    /\ ret' = [op |-> "generate", prompt |-> prompt, context |-> context,
               request |-> generate_request(llm_client, prompt, context),
               result |-> generate(llm_client, prompt, context, backend.generate)]
    /\ trace' = Remembered
    /\ UNCHANGED <<memory, clock, added, personality, llm_client, built, env, backend,
                   messages, pc, turn>>

IsAvailable ==
    /\ ret' = [op |-> "is_available", request |-> is_available_request(llm_client),
               result |-> is_available(llm_client, backend.tags)]
    /\ trace' = Remembered
    /\ UNCHANGED <<memory, clock, added, personality, llm_client, built, env, backend,
                   messages, pc, turn>>

MockResponse(prompt, context) ==
    /\ ret' = [op |-> "mock_response", prompt |-> prompt, context |-> context,
               value |-> mock_response(llm_client, prompt, context)]
    /\ UNCHANGED <<memory, clock, added, personality, llm_client, built, env, backend,
                   messages, pc, turn, trace>>

ClientNext ==
    \/ \E state \in BackendStates : BackendChange(state)
    \/ \E prompt \in Prompts, context \in Contexts : Generate(prompt, context)
    \/ IsAvailable
    \/ \E prompt \in Prompts, context \in Contexts : MockResponse(prompt, context)

SpecClient == ClientInit /\ [][ClientNext]_vars

\* the texts mock_response can return
MockTexts == {bases[tone] \o " " \o FallbackMarker : tone \in DOMAIN bases}

\* C2: generate never raises.  On a 200 status with a JSON object it returns
\* the object's response field, or "" when the field is absent; on every
\* other outcome (connection failure, timeout, another status, a 200 body
\* that is not JSON or not an object) it returns mock text ending with the
\* fallback marker.
C2_GenerateNeverRaises ==
    ret.op = "generate" =>
        LET reply == backend.generate
            answered == /\ reply.kind = "response"
                        /\ reply.status_code = 200
                        /\ reply.body.json
                        /\ reply.body.type = "object"
        IN  /\ ~ret.result.raised
            /\ answered =>
                  ret.result.value = IF "response" \in DOMAIN reply.body.fields
                                     THEN reply.body.fields.response ELSE ""
            /\ ~answered =>
                  /\ ret.result.value \in MockTexts
                  /\ EndsWith(ret.result.value, FallbackMarker)

\* a 200 response whose body is a JSON array has been answered with mock text
C2_Witness ==
    /\ ret.op = "generate"
    /\ backend.generate = Response(200, JsonArray)
    /\ ~ret.result.raised
    /\ EndsWith(ret.result.value, FallbackMarker)

\* the tone whose keyword the lowercased context names first in the order
\* professional, empathetic, casual, enthusiastic; friendly when it names none
ContextTone(context) ==
    LET ctx == Lower(IF context = None THEN "" ELSE context.val)
    IN  CASE Contains(ctx, "professional") -> "professional"
          [] ~Contains(ctx, "professional") /\ Contains(ctx, "empathetic") -> "empathetic"
          [] ~Contains(ctx, "professional") /\ ~Contains(ctx, "empathetic")
                /\ Contains(ctx, "casual") -> "casual"
          [] ~Contains(ctx, "professional") /\ ~Contains(ctx, "empathetic")
                /\ ~Contains(ctx, "casual") /\ Contains(ctx, "enthusiastic") -> "enthusiastic"
          [] OTHER -> "friendly"

\* C3: when the backend is unreachable, generate(prompt, context) returns the
\* mock text whose lead sentence is that of the tone keyword found in the
\* lowercased context (professional, empathetic, casual, enthusiastic, in
\* that order, else friendly), followed by the fallback marker.
C3_MockLeadFollowsContext ==
    (ret.op = "generate" /\ backend = Down) =>
        ret.result.value = bases[ContextTone(ret.context)] \o " " \o FallbackMarker

\* C9: is_available never raises and returns true exactly when the health
\* request made by that call gets a response with status 200; an exception
\* or another status gives false.  Nothing is cached: the answer is that of
\* the backend as it is at the call, whatever earlier calls returned.
C9_IsAvailableIsFresh ==
    ret.op = "is_available" =>
        /\ ~ret.result.raised
        /\ ret.result.value = (backend.tags.kind = "response" /\ backend.tags.status_code = 200)

\* is_available returned false, the backend changed, and the next call
\* returned true
C9_Witness ==
    /\ ret.op = "is_available"
    /\ ret.result.value = TRUE
    /\ trace = <<[op |-> "is_available", value |-> FALSE]>>

-----------------------------------------------------------------------------
(* The client's configuration *)

\* os.environ with the two variables the client reads, each unset (None) or set
Environ(base_url, model) ==
    [key \in (IF base_url = None THEN {} ELSE {"OLLAMA_BASE_URL"})
               \cup (IF model = None THEN {} ELSE {"OLLAMA_MODEL"}) |->
        IF key = "OLLAMA_BASE_URL" THEN base_url.val ELSE model.val]

Environs ==
    {Environ(base_url, model) :
        base_url \in {None, Some("http://env:11434")},
        model \in {None, Some(""), Some("llama2")}}

\* the base_url and model arguments; None is an argument not passed
BaseUrlArgs == {None, Some(""), Some("http://gpu:11434")}

ModelArgs == {None, Some("phi3")}

ConfigInit ==
    /\ \E environ \in Environs, model \in ModelArgs :
        \/ \E base_url \in BaseUrlArgs : InitClientBy("OllamaClient", base_url, model, environ)
        \/ InitClientBy("get_llm_client", None, model, environ)
    /\ InitMemory(MaxHistory)
    /\ InitPersonality("friendly")
    /\ InitSession
    /\ ret = [op |-> "__init__"]

\* the process's environment changes after the client was built
SetEnv(environ) ==
    /\ environ # env
    /\ env' = environ
    /\ ret' = [op |-> "environ"]
    /\ UNCHANGED <<memory, clock, added, personality, llm_client, built, backend,
                   messages, pc, turn, trace>>

ConfigNext ==
    \/ \E environ \in Environs : SetEnv(environ)
    \/ \E state \in {Down, Up} : BackendChange(state)
    \/ Generate("hi", None)
    \/ IsAvailable
    \/ MockResponse("hi", None)

SpecConfig == ConfigInit /\ [][ConfigNext]_vars

-----------------------------------------------------------------------------
(* src/app.py: one Streamlit session *)

\* create_memory(max_history=20) in initialize_session_state
SessionMaxHistory == 20

\* get_context(num_messages=5) in generate_response
ContextMessages == 5

\* the number of user turns and sample loads explored; each adds two messages
MaxEvents == 4

DemoResponse == "This is a demo response. Connect to Ollama for real AI interactions!"

\* what load_sample_data returns: [] when data/sample_chat.json is missing or
\* unreadable, else the file's list of messages
Samples ==
    {<<>>,
     <<[role |-> "user", content |-> "Hello"],
       [role |-> "assistant", content |-> "Hi! How can I help?"]>>}

\* the tones the user picks in the sidebar's selectbox
SelectedTones == {"friendly", "casual"}

\* a server that answers 200 with a JSON object holding no response field
Silent ==
    [tags |-> Response(200, JsonObject(<<>>)),
     generate |-> Response(200, JsonObject(<<>>))]

\* the backends a session sees
SessionBackends == {Down, Up, Silent}

\* the text the user types in the turn that starts at time t
PromptAt(t) == "Q" \o ContentAt(t)

RECURSIVE add_messages(_, _, _)
\* for msg in sample_data: memory.add_message(msg["role"], msg["content"])
add_messages(self, msgs, now) ==
    IF msgs = <<>> THEN self
    ELSE add_messages(add_message(self, msgs[1].role, msgs[1].content, now), Tail(msgs), now + 1)

\* initialize_session_state, on the session's first run
Init ==
    /\ InitMemory(SessionMaxHistory)
    /\ InitPersonality("friendly")
    /\ InitClient(<<>>)
    /\ InitSession
    /\ ret = [op |-> "__init__"]

\* render_sidebar: the selectbox shows another tone than the engine's
SelectTone(selected_tone) ==
    /\ pc = "idle"
    /\ selected_tone # personality.tone
    /\ personality' = create_personality(selected_tone).value
    /\ ret' = [op |-> "select_tone", tone |-> selected_tone]
    /\ UNCHANGED <<memory, clock, added, llm_client, built, env, backend, messages,
                   pc, turn, trace>>

\* render_sidebar: the Load Sample Chat button
LoadSample(sample_data) ==
    /\ pc = "idle"
    /\ clock < 2 * MaxEvents
    /\ clock + Len(sample_data) <= Len(Letters)
    /\ IF sample_data # <<>>
       THEN /\ messages' = sample_data
            /\ memory' = add_messages(memory, sample_data, clock)
            /\ clock' = clock + Len(sample_data)
            /\ added' = added \o sample_data
       ELSE UNCHANGED <<messages, memory, clock, added>>
    /\ ret' = [op |-> "load_sample", sample_data |-> sample_data]
    /\ UNCHANGED <<personality, llm_client, built, env, backend, pc, turn, trace>>

\* render_sidebar: the Clear Conversation button
ClearConversation ==
    /\ pc = "idle"
    /\ messages' = <<>>
    /\ memory' = clear(memory)
    /\ added' = <<>>
    /\ ret' = [op |-> "clear_conversation"]
    /\ UNCHANGED <<clock, personality, llm_client, built, env, backend, pc, turn, trace>>

\* the chat input's branch with the user message added to the displayed list
\* only, not yet to the memory
SubmitPrompt_display_only(prompt) ==
    /\ pc = "idle"
    /\ clock < 2 * MaxEvents
    /\ clock + 2 <= Len(Letters)
    /\ messages' = Append(messages, [role |-> "user", content |-> prompt])
    /\ clock' = clock + 1
    /\ turn' = [prompt |-> prompt, started |-> clock]
    /\ trace' = <<>>
    /\ pc' = "generate_response"
    /\ ret' = [op |-> "submit", prompt |-> prompt]
    /\ UNCHANGED <<memory, added, personality, llm_client, built, env, backend>>

\* main: the chat input holds a prompt; the user message is added to the
\* displayed list and to the memory (app.py:171-178)
SubmitPrompt(prompt) ==
    /\ pc = "idle"
    /\ clock < 2 * MaxEvents
    /\ clock + 2 <= Len(Letters)
    /\ messages' = Append(messages, [role |-> "user", content |-> prompt])
    /\ memory' = add_message(memory, "user", prompt, clock)
    /\ clock' = clock + 1
    /\ added' = Append(added, [role |-> "user", content |-> prompt])
    /\ turn' = [prompt |-> prompt, started |-> clock]
    /\ trace' = <<"memory.add_message(user)">>
    /\ pc' = "generate_response"
    /\ ret' = [op |-> "submit", prompt |-> prompt]
    /\ UNCHANGED <<personality, llm_client, built, env, backend>>

\* generate_response up to its availability check (app.py:125-135)
CheckAvailable ==
    /\ pc = "generate_response"
    /\ LET context == get_context(memory, ContextMessages)
           system_prompt == get_system_prompt(personality)
           full_context == IF context # ""
                           THEN system_prompt \o "\n\nRecent conversation:\n" \o context
                           ELSE system_prompt
           available == is_available(llm_client, backend.tags)
       IN  /\ turn' = [prompt |-> turn.prompt, started |-> turn.started,
                       context |-> context, full_context |-> full_context,
                       available |-> available.value]
           /\ ret' = [op |-> "is_available", request |-> is_available_request(llm_client),
                      result |-> available]
    /\ trace' = trace \o <<"memory.get_context", "personality.get_system_prompt",
                           "llm_client.is_available">>
    /\ pc' = "respond"
    /\ UNCHANGED <<memory, clock, added, personality, llm_client, built, env, backend, messages>>

\* the rest of the turn with generate called whatever is_available returned
Respond_always_generates ==
    /\ pc = "respond"
    /\ LET generated == generate(llm_client, turn.prompt, Some(turn.full_context), backend.generate)
           response == generated.value
           styled_response == apply_tone(personality, response, FALSE)
       IN  /\ turn' = [prompt |-> turn.prompt, started |-> turn.started,
                       context |-> turn.context, full_context |-> turn.full_context,
                       available |-> turn.available,
                       response |-> response, styled_response |-> styled_response]
           /\ messages' = Append(messages, [role |-> "assistant", content |-> styled_response])
           /\ memory' = add_message(memory, "assistant", styled_response, clock)
           /\ added' = Append(added, [role |-> "assistant", content |-> styled_response])
           /\ ret' = [op |-> "respond",
                      request |-> generate_request(llm_client, turn.prompt, Some(turn.full_context))]
    /\ trace' = trace \o <<"llm_client.generate", "personality.apply_tone",
                           "memory.add_message(assistant)">>
    /\ clock' = clock + 1
    /\ pc' = "idle"
    /\ UNCHANGED <<personality, llm_client, built, env, backend>>

\* the rest of generate_response and of the turn: the response is generated
\* or the demo text taken, styled, and added to the displayed list and to
\* the memory (app.py:135-145, 183-188)
Respond ==
    /\ pc = "respond"
    /\ LET generated == generate(llm_client, turn.prompt, Some(turn.full_context), backend.generate)
           response == IF turn.available THEN generated.value ELSE DemoResponse
           styled_response == apply_tone(personality, response, FALSE)
       IN  /\ turn' = [prompt |-> turn.prompt, started |-> turn.started,
                       context |-> turn.context, full_context |-> turn.full_context,
                       available |-> turn.available,
                       response |-> response, styled_response |-> styled_response]
           /\ messages' = Append(messages, [role |-> "assistant", content |-> styled_response])
           /\ memory' = add_message(memory, "assistant", styled_response, clock)
           /\ added' = Append(added, [role |-> "assistant", content |-> styled_response])
           /\ ret' = IF turn.available
                     THEN [op |-> "respond",
                           request |-> generate_request(llm_client, turn.prompt, Some(turn.full_context))]
                     ELSE [op |-> "respond", request |-> None]
    /\ trace' = trace \o (IF turn.available THEN <<"llm_client.generate">> ELSE <<>>)
                      \o <<"personality.apply_tone", "memory.add_message(assistant)">>
    /\ clock' = clock + 1
    /\ pc' = "idle"
    /\ UNCHANGED <<personality, llm_client, built, env, backend>>

Next ==
    \/ \E selected_tone \in SelectedTones : SelectTone(selected_tone)
    \/ \E sample_data \in Samples : LoadSample(sample_data)
    \/ ClearConversation
    \/ SubmitPrompt(PromptAt(clock))
    \/ CheckAvailable
    \/ Respond
    \/ \E state \in SessionBackends : BackendChange(state)

Spec == Init /\ [][Next]_vars

\* position of a call in the turn's trace, 0 when it was not made
CallIndex(call) ==
    IF \E i \in 1..Len(trace) : trace[i] = call
    THEN CHOOSE i \in 1..Len(trace) : trace[i] = call
    ELSE 0

\* the messages the memory holds that were added since the turn started
OfThisTurn == {i \in 1..Len(memory.history) : memory.history[i].timestamp >= turn.started}

\* C4 as stated: when the context has been read and the model client is about
\* to be invoked, neither of the turn's messages is in the History Buffer, so
\* the context holds messages of earlier turns only; both are appended after
\* the response was generated and styled.
C4_ContextReadBeforeAppend ==
    /\ pc = "respond" =>
        /\ OfThisTurn = {}
        /\ ~EndsWith(turn.context, "User: " \o turn.prompt)
    /\ ret.op = "respond" =>
        /\ CallIndex("memory.get_context") < CallIndex("memory.add_message(user)")
        /\ CallIndex("personality.apply_tone") < CallIndex("memory.add_message(user)")

\* C4, amended: the user message is appended to the History Buffer first;
\* the context read after it is the last 5 entries, ending with the line of
\* the current user input; the styled assistant message is appended only
\* after the response was generated and styled, right after the user message.
C4_UserAppendedBeforeContext ==
    /\ pc \in {"generate_response", "respond"} =>
        /\ memory.history # <<>>
        /\ OfThisTurn = {Len(memory.history)}
        /\ memory.history[Len(memory.history)].role = "user"
        /\ memory.history[Len(memory.history)].content = turn.prompt
    /\ pc = "respond" =>
        LET k == Len(memory.history)
            taken == Min(5, k)
        IN  /\ turn.context = ContextLines(SubSeq(memory.history, k - taken + 1, k))
            /\ EndsWith(turn.context, "User: " \o turn.prompt)
    /\ ret.op = "respond" =>
        LET k == Len(memory.history)
        IN  /\ k >= 2
            /\ OfThisTurn = {k - 1, k}
            /\ RoleContent(SubSeq(memory.history, k - 1, k)) =
                  <<[role |-> "user", content |-> turn.prompt],
                    [role |-> "assistant", content |-> turn.styled_response]>>
            /\ CallIndex("memory.add_message(user)") = 1
            /\ 1 < CallIndex("memory.get_context")
            /\ CallIndex("memory.get_context") < CallIndex("personality.apply_tone")
            /\ CallIndex("personality.apply_tone") + 1 = CallIndex("memory.add_message(assistant)")
            /\ CallIndex("memory.add_message(assistant)") = Len(trace)

\* in a fourth turn the buffer holds seven messages when the context is read:
\* the context leaves out the first turn and ends with the current user input
C4_Witness ==
    /\ pc = "respond"
    /\ Len(memory.history) = 7
    /\ memory.history[1].content = "QA"
    /\ ~Contains(turn.context, "QA")
    /\ EndsWith(turn.context, "\nUser: " \o turn.prompt)

\* C5 as stated: on every user turn generate is called, is_available is not
\* consulted, and whenever the backend is unreachable the assistant message
\* contains the fallback marker.
C5_AlwaysGenerates ==
    ret.op = "respond" =>
        /\ CallIndex("llm_client.generate") > 0
        /\ CallIndex("llm_client.is_available") = 0
        /\ backend = Down => Contains(turn.styled_response, FallbackMarker)

\* C5, amended: every user turn consults is_available first.  When it
\* returned true, generate(user_input, combined_prompt) is called and the
\* assistant message is apply_tone of its result: the response field of a
\* 200 JSON object ("" when absent, which apply_tone leaves undecorated),
\* else mock text with the fallback marker.  When it returned false,
\* generate is not called and the assistant message is apply_tone of the
\* fixed demo text, which has no fallback marker.
C5_GenerateOnlyWhenAvailable ==
    ret.op = "respond" =>
        LET traits == trait_map[personality.tone]
            last == memory.history[Len(memory.history)]
            reply == backend.generate
        IN  /\ CallIndex("llm_client.is_available") > 0
            /\ last.role = "assistant"
            /\ last.content = IF AllWhitespace(turn.response) THEN turn.response
                              ELSE traits.prefix \o turn.response \o traits.suffix
            /\ turn.available =>
                /\ CallIndex("llm_client.is_available") < CallIndex("llm_client.generate")
                /\ ret.request.json.prompt = turn.full_context \o "\n\n" \o turn.prompt
                /\ IF reply.kind = "response" /\ reply.status_code = 200
                   THEN turn.response = IF "response" \in DOMAIN reply.body.fields
                                        THEN reply.body.fields.response ELSE ""
                   ELSE /\ turn.response \in MockTexts
                        /\ Contains(last.content, FallbackMarker)
            /\ ~turn.available =>
                /\ CallIndex("llm_client.generate") = 0
                /\ ret.request = None
                /\ turn.response = "This is a demo response. Connect to Ollama for real AI interactions!"
                /\ ~Contains(last.content, FallbackMarker)

\* the backend is unreachable, is_available returned false, and the assistant
\* message is the styled demo text
C5_Witness ==
    /\ ret.op = "respond"
    /\ backend = Down
    /\ ~turn.available
    /\ memory.history[Len(memory.history)].content =
          "I'd be happy to help! This is a demo response. Connect to Ollama for real AI interactions! <u+1f60a>"

-----------------------------------------------------------------------------
(* The edges max_history = 0 and num_messages = 0, and the session's buffer *)

\* C11: the bound len(history) <= max_history holds at max_history = 0 too:
\* after any add_message on such a buffer the buffer is empty, and its length
\* never grows with further calls.
C11_ZeroBoundKeepsBufferEmpty ==
    memory.max_history = 0 => Len(memory.history) = 0

\* C12: get_context(0) returns the empty string on any history, empty or
\* not: the last 0 messages are no lines, never the whole history.
C12_ContextOfZeroIsEmpty ==
    (ret.op = "get_context" /\ ret.num_messages = 0) => ret.value = ""

\* C13: after any sequence of user turns, sample loads and clears in one
\* session, the History Buffer's (role, content) sequence is the last
\* min(len(messages), max_history) entries of the displayed message list;
\* clear leaves both empty with max_history unchanged, and a sample load
\* leaves the buffer holding exactly the loaded sample messages.
C13_BufferMirrorsDisplayedMessages ==
    LET shown == Min(Len(messages), memory.max_history)
    IN  /\ RoleContent(memory.history) =
              SubSeq(messages, Len(messages) - shown + 1, Len(messages))
        /\ memory.max_history = SessionMaxHistory
        /\ ret.op = "clear_conversation" => (messages = <<>> /\ memory.history = <<>>)
        /\ (ret.op = "load_sample" /\ ret.sample_data # <<>>) =>
              RoleContent(memory.history) = ret.sample_data

=============================================================================
